---- MODULE Spec2Model ----
(***************************************************************************)
(* A model of the LS-8 emulator of src/ls8/cpu.py: the CPU object, its     *)
(* loader, its ALU, its branch-table handlers and its run loop, with the   *)
(* semantics Python gives the source (unbounded integers, true division,   *)
(* negative list indices, exceptions that end the process).                *)
(***************************************************************************)
EXTENDS Integers, Sequences, FiniteSets, TLC

VARIABLES
    ram,        \* self.ram: 256 cells
    reg,        \* self.reg: 8 registers
    sp,         \* self.sp
    pc,         \* self.pc
    fl,         \* self.fl
    running,    \* self.running
    IR,         \* run()'s local IR, the opcode last fetched
    operand_a,  \* run()'s local operand_a
    operand_b,  \* run()'s local operand_b
    out,        \* the lines printed to standard output
    err,        \* how the process ended, "none" while it lives
    phase,      \* the position in the script: "load", then "run"
    steps       \* iterations of run()'s loop begun so far

vars == <<ram, reg, sp, pc, fl, running, IR, operand_a, operand_b,
          out, err, phase, steps>>

-----------------------------------------------------------------------------
(* Bounds of the model. *)

\* Iterations of the run loop the model follows.
MaxSteps == 9
\* Largest magnitude of an operand the model computes with.
MaxMag == 16384
\* Largest shift count the model computes with.
MaxShift == 12
\* Digits a printed fraction is followed to.
MaxFrac == 6

-----------------------------------------------------------------------------
(* OP codes. *)

ADD == 160
AND == 168
CALL == 80
CMP == 167
DEC == 102
DIV == 163
HLT == 1
INC == 101
IRET == 19
JEQ == 85
JLE == 89
JLT == 88
JMP == 84
JNE == 86
LD == 131
LDI == 130
MOD == 164
MUL == 162
NOT == 105
OR == 170
POP == 70
PRA == 72
PRN == 71
PUSH == 69
RET == 17
SHL == 172
SHR == 173
ST == 132
SUB == 161
XOR == 171

RamSize == 256
NumRegs == 8
InitialSP == 244

-----------------------------------------------------------------------------
(* Python numbers.  A value is [n, d]: d = 0 is the int n, d >= 1 is the   *)
(* float n/d in lowest terms (exact for the dyadic quotients the model's   *)
(* inputs produce).                                                        *)

RECURSIVE Gcd(_, _)
Gcd(a, b) == IF b = 0 THEN a ELSE Gcd(b, a % b)

Abs(n) == IF n < 0 THEN -n ELSE n

I(n) == [n |-> n, d |-> 0]

\* The float n/d, d # 0, in lowest terms with a positive denominator.
F(n, d) ==
    LET s == IF d < 0 THEN -1 ELSE 1
        g == Gcd(Abs(n), Abs(d))
    IN  [n |-> (s * n) \div g, d |-> (s * d) \div g]

IsInt(v) == v.d = 0
Den(v) == IF v.d = 0 THEN 1 ELSE v.d

\* Whether the model computes with v (the bound on magnitudes).
Fits(v) == Abs(v.n) <= MaxMag /\ v.d <= MaxMag

PyEq(a, b) == a.n * Den(b) = b.n * Den(a)
PyLt(a, b) == a.n * Den(b) < b.n * Den(a)

PyAdd(a, b) ==
    IF IsInt(a) /\ IsInt(b) THEN I(a.n + b.n)
    ELSE F(a.n * Den(b) + b.n * Den(a), Den(a) * Den(b))

PySub(a, b) ==
    IF IsInt(a) /\ IsInt(b) THEN I(a.n - b.n)
    ELSE F(a.n * Den(b) - b.n * Den(a), Den(a) * Den(b))

PyMul(a, b) ==
    IF IsInt(a) /\ IsInt(b) THEN I(a.n * b.n)
    ELSE F(a.n * b.n, Den(a) * Den(b))

\* a / b, b # 0: true division, always a float.
PyTrueDiv(a, b) == F(a.n * Den(b), Den(a) * b.n)

\* floor(p / q) for integers p, q, q # 0.
FloorDiv(p, q) == IF q > 0 THEN p \div q ELSE (-p) \div (-q)

\* a % b, b # 0: the remainder with the sign of the divisor; a float when
\* either operand is one.
PyMod(a, b) ==
    IF IsInt(a) /\ IsInt(b)
    THEN I(a.n - b.n * FloorDiv(a.n, b.n))
    ELSE LET q == FloorDiv(a.n * Den(b), Den(a) * b.n)
         IN  F(a.n * Den(b) - q * b.n * Den(a), Den(a) * Den(b))

\* Bitwise operators on Python ints (two's complement of unbounded width).
RECURSIVE BitAnd(_, _)
BitAnd(x, y) ==
    IF x = 0 \/ y = 0 THEN 0
    ELSE IF x = -1 THEN y
    ELSE IF y = -1 THEN x
    ELSE (x % 2) * (y % 2) + 2 * BitAnd(x \div 2, y \div 2)

RECURSIVE BitOr(_, _)
BitOr(x, y) ==
    IF x = 0 THEN y
    ELSE IF y = 0 THEN x
    ELSE IF x = -1 \/ y = -1 THEN -1
    ELSE (IF x % 2 = 1 \/ y % 2 = 1 THEN 1 ELSE 0) + 2 * BitOr(x \div 2, y \div 2)

RECURSIVE BitXor(_, _)
BitXor(x, y) ==
    IF x = 0 THEN y
    ELSE IF y = 0 THEN x
    ELSE IF x = -1 THEN -y - 1
    ELSE IF y = -1 THEN -x - 1
    ELSE (IF x % 2 = y % 2 THEN 0 ELSE 1) + 2 * BitXor(x \div 2, y \div 2)

RECURSIVE Pow2(_)
Pow2(k) == IF k = 0 THEN 1 ELSE 2 * Pow2(k - 1)

\* x >> k for an int x and k >= 0.
ShiftRight(x, k) == x \div Pow2(k)

-----------------------------------------------------------------------------
(* Python lists.  seq[i] accepts an int i in -len .. len-1, a negative i   *)
(* counting from the end; a float index is a TypeError and any other int   *)
(* an IndexError.                                                          *)

IndexError(i, len) ==
    IF ~IsInt(i) THEN "TypeError"
    ELSE IF i.n < -len \/ i.n >= len THEN "IndexError"
    ELSE "none"

Index(i, len) == IF i.n < 0 THEN i.n + len ELSE i.n

-----------------------------------------------------------------------------
(* Text.  A line of text is a sequence of one-character strings.           *)

Digits == <<"0", "1", "2", "3", "4", "5", "6", "7", "8", "9">>

\* str(n) for an int n >= 0.
RECURSIVE DecimalOf(_)
DecimalOf(n) ==
    IF n < 10 THEN <<Digits[n + 1]>>
    ELSE Append(DecimalOf(n \div 10), Digits[(n % 10) + 1])

\* The digits of the fraction r/d (0 <= r < d) by long division, "none" when
\* they do not end within k digits.
RECURSIVE FractionOf(_, _, _)
FractionOf(r, d, k) ==
    IF r = 0 THEN <<>>
    ELSE IF k = 0 THEN <<"none">>
    ELSE LET rest == FractionOf((r * 10) % d, d, k - 1)
         IN  IF rest = <<"none">> THEN rest
             ELSE <<Digits[((r * 10) \div d) + 1]>> \o rest

\* Whether the model prints v: a float is followed to MaxFrac digits, and
\* below 0.0001 Python turns to the exponent form.
Printable(v) ==
    IF IsInt(v) THEN TRUE
    ELSE /\ FractionOf(Abs(v.n) % v.d, v.d, MaxFrac) # <<"none">>
         /\ (v.n = 0 \/ Abs(v.n) * 10000 >= v.d)

\* str(v) as print() writes it: an int in decimal, a float with its
\* fraction and at least one digit after the point.
PyStr(v) ==
    LET sign == IF v.n < 0 THEN <<"-">> ELSE <<>>
    IN  IF IsInt(v) THEN sign \o DecimalOf(Abs(v.n))
        ELSE LET frac == FractionOf(Abs(v.n) % v.d, v.d, MaxFrac)
             IN  sign \o DecimalOf(Abs(v.n) \div v.d) \o <<".">>
                      \o (IF frac = <<>> THEN <<"0">> ELSE frac)

\* line.split("#")[0]: the text before the first "#".
RECURSIVE BeforeHash(_)
BeforeHash(line) ==
    IF line = <<>> \/ Head(line) = "#" THEN <<>>
    ELSE <<Head(line)>> \o BeforeHash(Tail(line))

\* str.strip(): without leading and trailing blanks.
RECURSIVE LStrip(_)
LStrip(s) == IF s # <<>> /\ Head(s) = " " THEN LStrip(Tail(s)) ELSE s

RECURSIVE RStrip(_)
RStrip(s) ==
    IF s # <<>> /\ s[Len(s)] = " " THEN RStrip(SubSeq(s, 1, Len(s) - 1)) ELSE s

Strip(s) == RStrip(LStrip(s))

\* The value of a string of binary digits, most significant first.
RECURSIVE BinValue(_)
BinValue(s) ==
    IF s = <<>> THEN 0
    ELSE 2 * BinValue(SubSeq(s, 1, Len(s) - 1)) + (IF s[Len(s)] = "1" THEN 1 ELSE 0)

\* int(s, 2) on the text the model's files hold: an optional sign, then one
\* or more of "0" and "1".  Anything else is a ValueError.
IsBinary(s) ==
    LET body == IF s # <<>> /\ Head(s) \in {"-", "+"} THEN Tail(s) ELSE s
    IN  body # <<>> /\ \A i \in 1..Len(body) : body[i] \in {"0", "1"}

ParseInt2(s) ==
    IF Head(s) = "-" THEN -BinValue(Tail(s))
    ELSE IF Head(s) = "+" THEN BinValue(Tail(s))
    ELSE BinValue(s)

-----------------------------------------------------------------------------
(* The CPU object.  The operators below take and return the machine m, a   *)
(* record of the object's fields with the output written and the way the   *)
(* process ended.  A raised exception leaves the fields as they are at the *)
(* raise and ends the process.                                             *)

\* The local variables of run() before the first fetch.
Unset == [n |-> 0, d |-> -1]

Machine ==
    [ram |-> ram, reg |-> reg, sp |-> sp, pc |-> pc, fl |-> fl,
     running |-> running, out |-> out, err |-> err]

Raise(m, e) == [m EXCEPT !.err = e]

\* print(line)
PrintLine(m, line) == [m EXCEPT !.out = Append(@, line)]

\* How self.ram[MAR] fails, "none" when it does not.
RamFault(MAR) == IndexError(MAR, RamSize)

ram_read(m, MAR) == m.ram[Index(MAR, RamSize)]

ram_write(m, MDR, MAR) == [m EXCEPT !.ram[Index(MAR, RamSize)] = MDR]

\* How self.reg[r] fails, "none" when it does not.
RegFault(r) == IndexError(r, NumRegs)

RegGet(m, r) == m.reg[Index(r, NumRegs)]

RegSet(m, r, v) == [m EXCEPT !.reg[Index(r, NumRegs)] = v]

-----------------------------------------------------------------------------
(* alu *)

NoFault(x, y) == "none"
\* &, |, ^ take ints only.
BitFault(x, y) == IF IsInt(x) /\ IsInt(y) THEN "none" ELSE "TypeError"
\* <<, >> take ints only and no negative count.
ShiftFault(x, y) ==
    IF ~(IsInt(x) /\ IsInt(y)) THEN "TypeError"
    ELSE IF y.n < 0 THEN "ValueError"
    ELSE "none"
\* /, % by zero.
ZeroFault(x, y) == IF y.n = 0 THEN "ZeroDivisionError" ELSE "none"

PyAnd(x, y) == I(BitAnd(x.n, y.n))
PyOr(x, y) == I(BitOr(x.n, y.n))
PyXor(x, y) == I(BitXor(x.n, y.n))
PyShl(x, y) == I(x.n * Pow2(y.n))
PyShr(x, y) == I(ShiftRight(x.n, y.n))

\* The exception the operator of op raises on x and y, "none" when it
\* raises none.
OperatorFault(op, x, y) ==
    IF op \in {AND, OR, XOR} THEN BitFault(x, y)
    ELSE IF op \in {SHL, SHR} THEN ShiftFault(x, y)
    ELSE IF op \in {DIV, MOD} THEN ZeroFault(x, y)
    ELSE NoFault(x, y)

\* The value the operator of op gives on x and y.
OperatorValue(op, x, y) ==
    IF op \in {ADD, INC} THEN PyAdd(x, y)
    ELSE IF op = AND THEN PyAnd(x, y)
    ELSE IF op = DIV THEN PyTrueDiv(x, y)
    ELSE IF op = MOD THEN PyMod(x, y)
    ELSE IF op = MUL THEN PyMul(x, y)
    ELSE IF op = OR THEN PyOr(x, y)
    ELSE IF op = SHL THEN PyShl(x, y)
    ELSE IF op = SHR THEN PyShr(x, y)
    ELSE IF op \in {SUB, DEC} THEN PySub(x, y)
    ELSE PyXor(x, y)

\* self.reg[reg_a] <op>= self.reg[reg_b]: both registers are read, reg_a
\* first, then the operator is applied and the result stored in reg_a.
AluAssign(m, op, reg_a, reg_b) ==
    IF RegFault(reg_a) # "none" THEN Raise(m, RegFault(reg_a))
    ELSE IF RegFault(reg_b) # "none" THEN Raise(m, RegFault(reg_b))
    ELSE LET x == RegGet(m, reg_a)
             y == RegGet(m, reg_b)
         IN  IF OperatorFault(op, x, y) # "none"
             THEN Raise(m, OperatorFault(op, x, y))
             ELSE RegSet(m, reg_a, OperatorValue(op, x, y))

\* self.reg[reg_a] <op>= 1
AluAssignOne(m, op, reg_a) ==
    IF RegFault(reg_a) # "none" THEN Raise(m, RegFault(reg_a))
    ELSE RegSet(m, reg_a, OperatorValue(op, RegGet(m, reg_a), I(1)))

DivideMessage == <<"ERROR: cannot divide by 0">>

\* The branch DIV and MOD take when the operand reg_b is 0: the message,
\* self.running = 0, sys.exit(1).
DivideExit(m) ==
    Raise([PrintLine(m, DivideMessage) EXCEPT !.running = FALSE], "exit(1)")

\* alu's CMP branch with the Less and Greater bits exchanged.
CmpWrongFlags(m, reg_a, reg_b) ==
    IF RegFault(reg_a) # "none" THEN Raise(m, RegFault(reg_a))
    ELSE IF RegFault(reg_b) # "none" THEN Raise(m, RegFault(reg_b))
    ELSE IF PyEq(RegGet(m, reg_a), RegGet(m, reg_b)) THEN [m EXCEPT !.fl = 1]
    ELSE IF PyLt(RegGet(m, reg_a), RegGet(m, reg_b)) THEN [m EXCEPT !.fl = 2]
    ELSE [m EXCEPT !.fl = 4]

\* op == CMP
alu_cmp(m, reg_a, reg_b) ==
    IF RegFault(reg_a) # "none" THEN Raise(m, RegFault(reg_a))
    ELSE IF RegFault(reg_b) # "none" THEN Raise(m, RegFault(reg_b))
    ELSE IF PyEq(RegGet(m, reg_a), RegGet(m, reg_b)) THEN [m EXCEPT !.fl = 1]
    ELSE IF PyLt(RegGet(m, reg_a), RegGet(m, reg_b)) THEN [m EXCEPT !.fl = 4]
    ELSE [m EXCEPT !.fl = 2]

\* alu's DIV branch storing 0 for a division by a register holding 0.
DivZeroYieldsZero(m, reg_a, reg_b) ==
    IF RegFault(reg_a) = "none" /\ RegFault(reg_b) = "none"
       /\ RegGet(m, reg_b).n = 0
    THEN RegSet(m, reg_a, I(0))
    ELSE AluAssign(m, DIV, reg_a, reg_b)

\* op == DIV
alu_div(m, reg_a, reg_b) ==
    IF PyEq(reg_b, I(0)) THEN DivideExit(m)
    ELSE AluAssign(m, DIV, reg_a, reg_b)

\* op == MOD
alu_mod(m, reg_a, reg_b) ==
    IF PyEq(reg_b, I(0)) THEN DivideExit(m)
    ELSE AluAssign(m, MOD, reg_a, reg_b)

\* op == NOT: a comparison whose result is dropped; both registers are read.
alu_not(m, reg_a, reg_b) ==
    IF RegFault(reg_a) # "none" THEN Raise(m, RegFault(reg_a))
    ELSE IF RegFault(reg_b) # "none" THEN Raise(m, RegFault(reg_b))
    ELSE m

alu(m, op, reg_a, reg_b) ==
    IF op = ADD THEN AluAssign(m, ADD, reg_a, reg_b)
    ELSE IF op = AND THEN AluAssign(m, AND, reg_a, reg_b)
    ELSE IF op = CMP THEN alu_cmp(m, reg_a, reg_b)
    ELSE IF op = DEC THEN AluAssignOne(m, DEC, reg_a)
    ELSE IF op = DIV THEN alu_div(m, reg_a, reg_b)
    ELSE IF op = INC THEN AluAssignOne(m, INC, reg_a)
    ELSE IF op = MOD THEN alu_mod(m, reg_a, reg_b)
    ELSE IF op = MUL THEN AluAssign(m, MUL, reg_a, reg_b)
    ELSE IF op = NOT THEN alu_not(m, reg_a, reg_b)
    ELSE IF op = OR THEN AluAssign(m, OR, reg_a, reg_b)
    ELSE IF op = SHL THEN AluAssign(m, SHL, reg_a, reg_b)
    ELSE IF op = SHR THEN AluAssign(m, SHR, reg_a, reg_b)
    ELSE IF op = SUB THEN AluAssign(m, SUB, reg_a, reg_b)
    ELSE IF op = XOR THEN AluAssign(m, XOR, reg_a, reg_b)
    ELSE Raise(m, "Unsupported ALU operation")

\* Whether the model computes alu(op, reg_a, reg_b): the operands it reads
\* are within MaxMag and a shift count within MaxShift.
AluComputable(m, op, reg_a, reg_b) ==
    /\ RegFault(reg_a) = "none" => Fits(RegGet(m, reg_a))
    /\ (op \notin {DEC, INC} /\ RegFault(reg_b) = "none") =>
          /\ Fits(RegGet(m, reg_b))
          /\ op \in {SHL, SHR} => RegGet(m, reg_b).n <= MaxShift

-----------------------------------------------------------------------------
(* OP functions *)

\* op_call storing its own address instead of the address after it.
CallPushesOwnAddress(m, a, b) ==
    LET m1 == [m EXCEPT !.sp = @ - 1]
    IN  IF RamFault(I(m1.sp)) # "none" THEN Raise(m1, RamFault(I(m1.sp)))
        ELSE LET m2 == ram_write(m1, m1.pc, I(m1.sp))
             IN  IF RegFault(a) # "none" THEN Raise(m2, RegFault(a))
                 ELSE [m2 EXCEPT !.pc = RegGet(m2, a)]

op_call(m, a, b) ==
    LET m1 == [m EXCEPT !.sp = @ - 1]
    IN  IF RamFault(I(m1.sp)) # "none" THEN Raise(m1, RamFault(I(m1.sp)))
        ELSE LET m2 == ram_write(m1, PyAdd(m1.pc, I(2)), I(m1.sp))
             IN  IF RegFault(a) # "none" THEN Raise(m2, RegFault(a))
                 ELSE [m2 EXCEPT !.pc = RegGet(m2, a)]

\* op_hlt that does not clear self.running.
HltLeavesRunning(m, a, b) == m

op_hlt(m, a, b) == [m EXCEPT !.running = FALSE]

op_jmp(m, a, b) ==
    IF RegFault(a) # "none" THEN Raise(m, RegFault(a))
    ELSE [m EXCEPT !.pc = RegGet(m, a)]

\* op_jeq clearing the flags when it jumps.
JeqConsumesFlag(m, a, b) ==
    LET equalFL == m.fl % 2
    IN  IF equalFL = 1 THEN op_jmp([m EXCEPT !.fl = 0], a, b)
        ELSE [m EXCEPT !.pc = PyAdd(@, I(2))]

op_jeq(m, a, b) ==
    LET equalFL == m.fl % 2
    IN  IF equalFL = 1 THEN op_jmp(m, a, b)
        ELSE [m EXCEPT !.pc = PyAdd(@, I(2))]

\* op_jne leaving the advance of a jump not taken to run().
JneFallsToEngine(m, a, b) ==
    LET equalFL == m.fl % 2
    IN  IF equalFL = 0 THEN op_jmp(m, a, b)
        ELSE m

op_jne(m, a, b) ==
    LET equalFL == m.fl % 2
    IN  IF equalFL = 0 THEN op_jmp(m, a, b)
        ELSE [m EXCEPT !.pc = PyAdd(@, I(2))]

op_ldi(m, a, b) ==
    IF RegFault(a) # "none" THEN Raise(m, RegFault(a))
    ELSE RegSet(m, a, b)

\* op_pop raising SP before it reads.
PopIncrementsFirst(m, a, b) ==
    LET m1 == [m EXCEPT !.sp = @ + 1]
    IN  IF RamFault(I(m1.sp)) # "none" THEN Raise(m1, RamFault(I(m1.sp)))
        ELSE IF RegFault(a) # "none" THEN Raise(m1, RegFault(a))
        ELSE RegSet(m1, a, ram_read(m1, I(m1.sp)))

op_pop(m, a, b) ==
    IF RamFault(I(m.sp)) # "none" THEN Raise(m, RamFault(I(m.sp)))
    ELSE LET value == ram_read(m, I(m.sp))
         IN  IF RegFault(a) # "none" THEN Raise(m, RegFault(a))
             ELSE [RegSet(m, a, value) EXCEPT !.sp = @ + 1]

\* op_prn printing its operand instead of the register it names.
PrnPrintsOperand(m, a, b) ==
    IF RegFault(a) # "none" THEN Raise(m, RegFault(a))
    ELSE PrintLine(m, PyStr(a))

op_prn(m, a, b) ==
    IF RegFault(a) # "none" THEN Raise(m, RegFault(a))
    ELSE PrintLine(m, PyStr(RegGet(m, a)))

\* op_push writing before it lowers SP.
PushWritesFirst(m, a, b) ==
    IF RegFault(a) # "none" THEN Raise(m, RegFault(a))
    ELSE IF RamFault(I(m.sp)) # "none" THEN Raise(m, RamFault(I(m.sp)))
    ELSE [ram_write(m, RegGet(m, a), I(m.sp)) EXCEPT !.sp = @ - 1]

op_push(m, a, b) ==
    LET m1 == [m EXCEPT !.sp = @ - 1]
    IN  IF RegFault(a) # "none" THEN Raise(m1, RegFault(a))
        ELSE IF RamFault(I(m1.sp)) # "none" THEN Raise(m1, RamFault(I(m1.sp)))
        ELSE ram_write(m1, RegGet(m1, a), I(m1.sp))

\* op_ret stopping the machine when the stack is empty.
RetStopsWhenEmpty(m, a, b) ==
    IF RamFault(I(m.sp)) # "none" THEN Raise(m, RamFault(I(m.sp)))
    ELSE IF m.sp = InitialSP THEN [m EXCEPT !.running = FALSE]
    ELSE [m EXCEPT !.pc = ram_read(m, I(m.sp)), !.sp = @ + 1]

op_ret(m, a, b) ==
    IF RamFault(I(m.sp)) # "none" THEN Raise(m, RamFault(I(m.sp)))
    ELSE [m EXCEPT !.pc = ram_read(m, I(m.sp)), !.sp = @ + 1]

\* self.bt: the opcodes of the branch table.
bt == {CALL, HLT, JEQ, JMP, JNE, LDI, POP, PRN, PUSH, RET}

\* self.bt[op](a, b)
Handler(m, op, a, b) ==
    IF op = CALL THEN op_call(m, a, b)
    ELSE IF op = HLT THEN op_hlt(m, a, b)
    ELSE IF op = JEQ THEN op_jeq(m, a, b)
    ELSE IF op = JMP THEN op_jmp(m, a, b)
    ELSE IF op = JNE THEN op_jne(m, a, b)
    ELSE IF op = LDI THEN op_ldi(m, a, b)
    ELSE IF op = POP THEN op_pop(m, a, b)
    ELSE IF op = PRN THEN op_prn(m, a, b)
    ELSE IF op = PUSH THEN op_push(m, a, b)
    ELSE op_ret(m, a, b)

\* Whether the model prints what the handler of op prints.
HandlerComputable(m, op, a) ==
    (op = PRN /\ RegFault(a) = "none") => Printable(RegGet(m, a))

-----------------------------------------------------------------------------
(* run: one iteration of the loop *)

\* (IR >> k) & 1 for an int IR
Bit(x, k) == (x \div Pow2(k)) % 2

isALU(ir) == Bit(ir.n, 5)
setsPC(ir) == Bit(ir.n, 4)
num_operands(ir) == ir.n \div Pow2(6)

\* The end of the iteration moving pc past every instruction, whatever its
\* bit 4.
AdvanceAlways(m, ir) ==
    IF m.err # "none" THEN m
    ELSE [m EXCEPT !.pc = PyAdd(@, I(num_operands(ir) + 1))]

\* The end of the iteration: pc moves past the instruction unless the
\* opcode says the instruction sets it.  Not reached when the instruction
\* raised.
AdvancePC(m, ir) ==
    IF m.err # "none" THEN m
    ELSE IF setsPC(ir) = 0
    THEN [m EXCEPT !.pc = PyAdd(@, I(num_operands(ir) + 1))]
    ELSE m

\* A fetch that reads only the opcode at pc and leaves the operands to the
\* instruction.
FetchOpcodeOnly ==
    IF RamFault(pc) # "none" THEN RamFault(pc)
    ELSE IF ~IsInt(ram_read(Machine, pc)) THEN "TypeError"
    ELSE "none"

\* How the three reads of the fetch fail, "none" when they do not: the
\* reads at pc, pc + 1 and pc + 2 in this order, then IR >> 5 on a float.
FetchFault ==
    IF RamFault(pc) # "none" THEN RamFault(pc)
    ELSE IF RamFault(PyAdd(pc, I(1))) # "none" THEN RamFault(PyAdd(pc, I(1)))
    ELSE IF RamFault(PyAdd(pc, I(2))) # "none" THEN RamFault(PyAdd(pc, I(2)))
    ELSE IF ~IsInt(ram_read(Machine, pc)) THEN "TypeError"
    ELSE "none"

\* What the three reads give; a read that raises assigns nothing and is
\* written Unset.
FetchIR == IF RamFault(pc) = "none" THEN ram_read(Machine, pc) ELSE Unset
FetchA ==
    IF RamFault(pc) = "none" /\ RamFault(PyAdd(pc, I(1))) = "none"
    THEN ram_read(Machine, PyAdd(pc, I(1))) ELSE Unset
FetchB ==
    IF RamFault(pc) = "none" /\ RamFault(PyAdd(pc, I(2))) = "none"
    THEN ram_read(Machine, PyAdd(pc, I(2))) ELSE Unset

\* The loop is entered: the script is in run(), the process lives and
\* self.running is true.
Looping ==
    /\ phase = "run"
    /\ err = "none"
    /\ running
    /\ steps < MaxSteps

Becomes(m) ==
    /\ ram' = m.ram
    /\ reg' = m.reg
    /\ sp' = m.sp
    /\ pc' = m.pc
    /\ fl' = m.fl
    /\ running' = m.running
    /\ out' = m.out
    /\ err' = m.err

\* A fetch that raises.  The locals read before the raise are assigned.
StepFault ==
    /\ Looping
    /\ FetchFault # "none"
    /\ steps' = steps + 1
    /\ err' = FetchFault
    /\ IR' = IF RamFault(pc) = "none" THEN FetchIR ELSE IR
    /\ operand_a' = IF RamFault(pc) = "none" /\ RamFault(PyAdd(pc, I(1))) = "none"
                    THEN FetchA ELSE operand_a
    /\ operand_b' = IF RamFault(pc) = "none" /\ RamFault(PyAdd(pc, I(1))) = "none"
                       /\ RamFault(PyAdd(pc, I(2))) = "none"
                    THEN FetchB ELSE operand_b
    /\ UNCHANGED <<ram, reg, sp, pc, fl, running, out, phase>>

\* An iteration whose opcode has bit 5 set: the ALU.
StepAlu ==
    /\ Looping
    /\ FetchFault = "none"
    /\ isALU(FetchIR) = 1
    /\ AluComputable(Machine, FetchIR.n, FetchA, FetchB)
    /\ steps' = steps + 1
    /\ IR' = FetchIR
    /\ operand_a' = FetchA
    /\ operand_b' = FetchB
    /\ Becomes(AdvancePC(alu(Machine, FetchIR.n, FetchA, FetchB), FetchIR))
    /\ UNCHANGED phase

\* An iteration whose opcode is in the branch table.
StepTable ==
    /\ Looping
    /\ FetchFault = "none"
    /\ isALU(FetchIR) = 0
    /\ FetchIR.n \in bt
    /\ HandlerComputable(Machine, FetchIR.n, FetchA)
    /\ steps' = steps + 1
    /\ IR' = FetchIR
    /\ operand_a' = FetchA
    /\ operand_b' = FetchB
    /\ Becomes(AdvancePC(Handler(Machine, FetchIR.n, FetchA, FetchB), FetchIR))
    /\ UNCHANGED phase

\* An iteration whose opcode is neither: nothing is done but the advance.
StepOther ==
    /\ Looping
    /\ FetchFault = "none"
    /\ isALU(FetchIR) = 0
    /\ FetchIR.n \notin bt
    /\ steps' = steps + 1
    /\ IR' = FetchIR
    /\ operand_a' = FetchA
    /\ operand_b' = FetchB
    /\ Becomes(AdvancePC(Machine, FetchIR))
    /\ UNCHANGED phase

-----------------------------------------------------------------------------
(* load *)

UsageMessage == <<"Usage: cpy.py filename">>
NotFoundMessage(filename) == <<filename, " file not found">>

\* The body of the loop on one line of the file: st is the CPU and the next
\* address to write.  Nothing is done once a line has raised.
LoadLine(st, line) ==
    LET opcode == Strip(BeforeHash(line))
    IN  IF st.m.err # "none" THEN st
        ELSE IF opcode = <<>> THEN st
        ELSE IF ~IsBinary(opcode) THEN [st EXCEPT !.m = Raise(@, "ValueError")]
        ELSE IF RamFault(I(st.address)) # "none"
        THEN [st EXCEPT !.m = Raise(@, RamFault(I(st.address)))]
        ELSE [m |-> ram_write(st.m, I(ParseInt2(opcode)), I(st.address)),
              address |-> st.address + 1]

\* The loop over the lines lo..hi of the file, in order: the first half of
\* the lines, then, unless one of them raised, the second.
RECURSIVE LoadLines(_, _, _, _)
LoadLines(st, lines, lo, hi) ==
    IF lo > hi THEN st
    ELSE IF lo = hi THEN LoadLine(st, lines[lo])
    ELSE LET mid == (lo + hi) \div 2
             first == LoadLines(st, lines, lo, mid)
         IN  IF first.m.err # "none" THEN first
             ELSE LoadLines(first, lines, mid + 1, hi)

\* load() on the command line argv, where file is the file argv[1] names:
\* whether it exists and its lines.
load(m, argv, file) ==
    IF Len(argv) # 2 THEN Raise(PrintLine(m, UsageMessage), "exit(1)")
    ELSE IF ~file.exists
    THEN Raise(PrintLine(m, NotFoundMessage(argv[2])), "exit(2)")
    ELSE LoadLines([m |-> m, address |-> 0], file.lines, 1, Len(file.lines)).m

-----------------------------------------------------------------------------
(* The program files the model loads.  A program is written as its bytes   *)
(* and turned into the text of a file, one binary literal a line.          *)

\* The k binary digits of n.
RECURSIVE BinaryText(_, _)
BinaryText(n, k) ==
    IF k = 0 THEN <<>>
    ELSE Append(BinaryText(n \div 2, k - 1), IF n % 2 = 1 THEN "1" ELSE "0")

TextOf(bytes) == [i \in 1..Len(bytes) |-> BinaryText(bytes[i], 8)]

\* Values loaded into registers.
Vals == {0, 1, 2, 7, 200, 255}
FewVals == {1, 200}

AluOps2 == {ADD, AND, CMP, DIV, MOD, MUL, OR, SHL, SHR, SUB, XOR}
AluOps1 == {DEC, INC, NOT}

RegPairs == {<<0, 1>>, <<1, 0>>, <<1, 1>>, <<1, 7>>}

\* LDI d,a; LDI s,b; op d,s; PRN d; HLT
AluPrograms ==
    {<<LDI, p[1], a, LDI, p[2], b, op, p[1], p[2], PRN, p[1], HLT>> :
        p \in RegPairs, a \in Vals, b \in Vals, op \in AluOps2}

\* LDI 1,7; LDI s,b; DIV or MOD 1,s; PRN 1; HLT, for every register s
DividePrograms ==
    {<<LDI, 1, 7, LDI, s, b, op, 1, s, PRN, 1, HLT>> :
        s \in 0..7, b \in {0, 2}, op \in {DIV, MOD}}

\* LDI d,a; op d; HLT   and   LDI d,a; op d; PRN d; HLT
UnaryPrograms ==
    {<<LDI, d, a, op, d, HLT>> : d \in {0, 1}, a \in Vals, op \in AluOps1}
    \cup {<<LDI, d, a, op, d, PRN, d, HLT>> : d \in {0, 1}, a \in Vals, op \in AluOps1}

\* LDI r,a; PUSH r; POP q; HLT
PushPopPrograms ==
    {<<LDI, r, a, PUSH, r, POP, q, HLT>> : r \in {0, 1, 7}, q \in {0, 1, 7}, a \in Vals}

\* LDI ra,a; LDI rb,b; PUSH ra; PUSH rb; POP rc; POP rd; HLT
PushTwoPrograms ==
    {<<LDI, ra, a, LDI, rb, b, PUSH, ra, PUSH, rb, POP, rc, POP, rd, HLT>> :
        ra \in {0, 1}, rb \in {0, 1}, rc \in {0, 1, 2}, rd \in {0, 1, 2},
        a \in FewVals, b \in {2, 255}}

\* LDI 0,a; LDI 1,b; PUSH 0; PUSH 1; PUSH 7; POP 2; POP 3; POP 4; HLT
PushThreePrograms ==
    {<<LDI, 0, a, LDI, 1, b, PUSH, 0, PUSH, 1, PUSH, 7,
       POP, 2, POP, 3, POP, 4, HLT>> : a \in FewVals, b \in {2, 255}}

\* The subroutines called: each ends in RET.
Subroutines ==
    {<<RET>>,
     <<PUSH, 0, POP, 0, RET>>,
     <<LDI, 1, 7, PRN, 1, RET>>,
     <<INC, 0, RET>>,
     <<POP, 1, RET>>,
     <<PUSH, 1, RET>>,
     <<LDI, 0, 12, CALL, 0, RET, 0, RET>>}

\* LDI r,t; CALL r; PRN r; HLT; zeros up to t; the subroutine at t
CallPrograms ==
    {<<LDI, r, t, CALL, r, PRN, r, HLT>> \o [i \in 1..(t - 8) |-> 0] \o sub :
        r \in {0, 1}, t \in {8, 10}, sub \in Subroutines}

\* LDI 0,a; LDI 1,b; LDI 2,19; [CMP 0,1;] jump 2; PRN 0; HLT; 0; PRN 1; HLT
\* with the target 19 when the CMP is there and the jump at 12
JumpPrograms ==
    {<<LDI, 0, a, LDI, 1, b, LDI, 2, 19, CMP, 0, 1, j, 2, PRN, 0, HLT, 0, 0,
       PRN, 1, HLT>> : a \in {1, 2}, b \in {1, 2}, j \in {JEQ, JNE, JMP}}
    \cup {<<LDI, 2, 7, j, 2, PRN, 2, HLT, PRN, 0, HLT>> : j \in {JEQ, JNE, JMP}}

\* LDI r,v; PRN r; HLT
PrintPrograms ==
    {<<LDI, r, v, PRN, r, HLT>> : r \in 0..7, v \in Vals \cup {8}}

\* An opcode outside the branch table and the ALU's list, then PRN 0; HLT
OtherPrograms ==
    {<<op, 0, 0, PRN, 0, HLT>> :
        op \in {IRET, JLE, JLT, PRA, LD, ST, 0, 176, 32}}

\* Programs that leave the memory, misuse an operand or just halt.
EdgePrograms ==
    {<<HLT>>,
     <<>>,
     <<LDI, 0, 254, JMP, 0>>,
     <<LDI, 0, 255, JMP, 0>>,
     <<LDI, 9, 1, HLT>>,
     <<PRN, 8, HLT>>,
     <<POP, 0, POP, 0, POP, 0, POP, 0, POP, 0, POP, 0, HLT>>,
     <<LDI, 0, 7, LDI, 1, 2, DIV, 0, 1, PUSH, 0, RET>>,
     <<LDI, 0, 7, LDI, 1, 2, DIV, 0, 1, JMP, 0>>,
     <<LDI, 0, 7, LDI, 1, 2, DIV, 0, 1, MUL, 0, 1, PRN, 0, AND, 0, 1, HLT>>,
     <<LDI, 0, 1, LDI, 1, 2, SUB, 0, 1, PRN, 0, SHL, 1, 0>>,
     <<LDI, 0, 1, LDI, 1, 2, SUB, 0, 1, PUSH, 0, LDI, 0, 1, HLT>>,
     <<LDI, 0, 1, LDI, 1, 2, SUB, 0, 1, JMP, 0>>,
     <<LDI, 7, 20, PUSH, 7, PRN, 7, POP, 0, HLT>>}

\* LDI 0,t; JMP 0; zeros; HLT as the last byte, at address t = 254 or 255;
\* and 257 zeros, one more than the memory holds.
LongPrograms ==
    {<<LDI, 0, t, JMP, 0>> \o [i \in 1..(t - 5) |-> 0] \o <<HLT>> : t \in {254, 255}}
    \cup {[i \in 1..(RamSize + 1) |-> 0]}

Programs ==
    AluPrograms \cup DividePrograms \cup UnaryPrograms \cup PushPopPrograms
    \cup PushTwoPrograms \cup PushThreePrograms \cup CallPrograms
    \cup JumpPrograms \cup PrintPrograms \cup OtherPrograms \cup EdgePrograms
    \cup LongPrograms

\* Files written by hand: comments, blank lines, and literals that are not
\* one byte or not binary.
Comment == <<" ", "#", " ", "L", "D", "I">>

HandFiles ==
    {<<BinaryText(LDI, 8) \o Comment, BinaryText(0, 8), BinaryText(8, 8),
       <<>>, <<"#", " ", "p", "r", "i", "n", "t">>,
       <<" ", " ">> \o BinaryText(PRN, 8) \o <<" ">>, BinaryText(0, 8),
       BinaryText(HLT, 8)>>,
     <<BinaryText(256, 9), BinaryText(HLT, 8)>>,
     <<<<"-", "1">>, BinaryText(HLT, 8)>>,
     <<BinaryText(HLT, 8), <<"1", "2">>>>,
     <<<<"1">>>>}

Files ==
    {[exists |-> TRUE, lines |-> text] :
        text \in {TextOf(bytes) : bytes \in Programs} \cup HandFiles}
    \cup {[exists |-> FALSE, lines |-> <<>>]}

\* The command lines: the script's name and the arguments given.
CommandLines == {<<"cpu.py">>, <<"cpu.py", "prog.ls8">>, <<"cpu.py", "prog.ls8", "x">>}

-----------------------------------------------------------------------------
(* The script: cpu = CPU(); cpu.load(); cpu.run() *)

Init ==
    /\ ram = [i \in 0..(RamSize - 1) |-> I(0)]
    /\ reg = [i \in 0..(NumRegs - 1) |-> IF i = 7 THEN I(InitialSP) ELSE I(0)]
    /\ sp = InitialSP
    /\ pc = I(0)
    /\ fl = 0
    /\ running = TRUE
    /\ IR = Unset
    /\ operand_a = Unset
    /\ operand_b = Unset
    /\ out = <<>>
    /\ err = "none"
    /\ phase = "load"
    /\ steps = 0

\* load() on one command line and file; the script goes on to run() when
\* load() returns.
Load ==
    /\ phase = "load"
    /\ err = "none"
    /\ \E argv \in CommandLines, file \in Files :
          Becomes(load(Machine, argv, file))
    /\ phase' = IF err' = "none" THEN "run" ELSE "load"
    /\ UNCHANGED <<IR, operand_a, operand_b, steps>>

Next == Load \/ StepFault \/ StepAlu \/ StepTable \/ StepOther

Spec == Init /\ [][Next]_vars

-----------------------------------------------------------------------------
(* Properties *)

\* A byte: an int in 0..255.
Byte(v) == IsInt(v) /\ v.n \in 0..255

\* A register index 0..7.
RegIndex(v) == IsInt(v) /\ v.n \in 0..(NumRegs - 1)

\* The iteration about to run executes the ALU operation op on two
\* registers dest = operand_a and src = operand_b.
AluStep(op) ==
    /\ StepAlu
    /\ FetchIR.n = op
    /\ RegIndex(FetchA)
    /\ RegIndex(FetchB)

DestBefore == reg[FetchA.n]
SrcBefore == reg[FetchB.n]
DestAfter == reg'[FetchA.n]

\* C1: for 8-bit values a and b in reg[dest] and reg[src], ADD leaves
\* reg[dest] = (a+b) mod 256, SUB (a-b) mod 256 and MUL (a*b) mod 256.
C1_ModularArithmetic ==
    [][ /\ (AluStep(ADD) /\ Byte(DestBefore) /\ Byte(SrcBefore)) =>
              DestAfter = I((DestBefore.n + SrcBefore.n) % 256)
        /\ (AluStep(SUB) /\ Byte(DestBefore) /\ Byte(SrcBefore)) =>
              DestAfter = I((DestBefore.n - SrcBefore.n) % 256)
        /\ (AluStep(MUL) /\ Byte(DestBefore) /\ Byte(SrcBefore)) =>
              DestAfter = I((DestBefore.n * SrcBefore.n) % 256)
      ]_vars

\* C2: DIV or MOD executed while reg[src] is 0, for any source register
\* 0..7, fails with a divide-by-zero failure (the exit with the "cannot
\* divide by 0" message, or Python's ZeroDivisionError) and writes no
\* register.
C2_DivideByZeroFails ==
    [][ ((AluStep(DIV) \/ AluStep(MOD)) /\ PyEq(SrcBefore, I(0))) =>
            /\ err' \in {"exit(1)", "ZeroDivisionError"}
            /\ reg' = reg
      ]_vars

\* C2 happens: a MOD by register 7 holding 0 has raised ZeroDivisionError
\* and the destination still holds the 7 loaded into it.
C2_Witness ==
    /\ IR = I(MOD)
    /\ operand_a = I(1)
    /\ operand_b = I(7)
    /\ reg[7] = I(0)
    /\ reg[1] = I(7)
    /\ err = "ZeroDivisionError"

\* C3: CMP on registers holding a and b leaves exactly the flag of their
\* order set (Equal 1 iff a = b, Less 4 iff a < b, Greater 2 iff a > b) and
\* changes no register; and at most one flag bit is set in every state.
C3_CmpSetsOneFlag ==
    /\ [][ AluStep(CMP) =>
              /\ fl' = (IF PyEq(DestBefore, SrcBefore) THEN 1
                        ELSE IF PyLt(DestBefore, SrcBefore) THEN 4
                        ELSE 2)
              /\ reg' = reg
         ]_vars
    /\ [](fl \in {0, 1, 2, 4})

\* C3 happens: a CMP of a smaller with a larger register has set Less.
C3_Witness ==
    /\ IR = I(CMP)
    /\ err = "none"
    /\ RegIndex(operand_a) /\ RegIndex(operand_b)
    /\ reg[operand_a.n] = I(2)
    /\ reg[operand_b.n] = I(200)
    /\ fl = 4
    /\ pc = I(9)

\* C4: the flags are all clear initially and a step changes them only when
\* the opcode it fetched is CMP.
C4_FlagsOnlyByCmp ==
    /\ fl = 0
    /\ [][ fl' # fl => (StepAlu /\ FetchIR.n = CMP) ]_vars

\* C4 happens: a JEQ has been executed and taken with Equal set, and Equal
\* is still set.
C4_Witness ==
    /\ IR = I(JEQ)
    /\ err = "none"
    /\ fl = 1
    /\ pc = I(19)
    /\ steps = 5

\* The iteration about to run executes the branch-table handler of op.
TableStep(op) == StepTable /\ FetchIR.n = op

\* C5: PUSH r immediately followed by POP r leaves reg[r] and SP as they
\* were before the PUSH: the PUSH changes no register and lowers SP by one,
\* and the POP of the same register that follows it changes no register
\* and raises SP by one.
C5_PushPopRestores ==
    [][ /\ (TableStep(PUSH) /\ err' = "none") =>
              /\ reg' = reg
              /\ sp' = sp - 1
        /\ (/\ steps >= 1 /\ IR = I(PUSH) /\ RegIndex(operand_a)
            /\ TableStep(POP) /\ FetchA = operand_a /\ err' = "none") =>
              /\ reg' = reg
              /\ sp' = sp + 1
      ]_vars

\* C5 happens: LDI 7,200; PUSH 7; POP 7 has run and register 7 holds 200
\* with SP back at 244.
C5_Witness ==
    /\ ram[3] = I(PUSH) /\ ram[4] = I(7)
    /\ ram[5] = I(POP) /\ ram[6] = I(7)
    /\ IR = I(POP)
    /\ operand_a = I(7)
    /\ steps = 3
    /\ err = "none"
    /\ reg[7] = I(200)
    /\ sp = InitialSP

\* The memory holds LDI ra,a; LDI rb,b; PUSH ra; PUSH rb; POP rc; POP rd
\* from address 0 with ra # rb and rc # rd.
PushTwoLoaded ==
    /\ ram[0] = I(LDI) /\ RegIndex(ram[1])
    /\ ram[3] = I(LDI) /\ RegIndex(ram[4])
    /\ ram[6] = I(PUSH) /\ ram[7] = ram[1]
    /\ ram[8] = I(PUSH) /\ ram[9] = ram[4]
    /\ ram[10] = I(POP) /\ RegIndex(ram[11])
    /\ ram[12] = I(POP) /\ RegIndex(ram[13])
    /\ ram[1] # ram[4]
    /\ ram[11] # ram[13]

\* The memory holds LDI 0,a; LDI 1,b; PUSH 0; PUSH 1; PUSH 7; POP 2; POP 3;
\* POP 4 from address 0.
PushThreeLoaded ==
    /\ ram[0] = I(LDI) /\ ram[1] = I(0)
    /\ ram[3] = I(LDI) /\ ram[4] = I(1)
    /\ ram[6] = I(PUSH) /\ ram[7] = I(0)
    /\ ram[8] = I(PUSH) /\ ram[9] = I(1)
    /\ ram[10] = I(PUSH) /\ ram[11] = I(7)
    /\ ram[12] = I(POP) /\ ram[13] = I(2)
    /\ ram[14] = I(POP) /\ ram[15] = I(3)
    /\ ram[16] = I(POP) /\ ram[17] = I(4)

\* C6: the stack is last in, first out: after PUSH ra; PUSH rb; POP rc;
\* POP rd, reg[rc] holds what rb held and reg[rd] what ra held, and SP is
\* back where it was; after three PUSHes and three POPs the k-th POP has
\* read the (4-k)-th value pushed.
C6_StackIsLifo ==
    /\ (PushTwoLoaded /\ steps = 6 /\ err = "none") =>
          /\ reg[ram[11].n] = ram[5]
          /\ reg[ram[13].n] = ram[2]
          /\ sp = InitialSP
    /\ (PushThreeLoaded /\ steps = 8 /\ err = "none") =>
          /\ reg[2] = I(InitialSP)
          /\ reg[3] = ram[5]
          /\ reg[4] = ram[2]
          /\ sp = InitialSP

\* C6 happens: 200 and 255 were pushed from registers 0 and 1 and popped
\* into registers 1 and 0.
C6_Witness ==
    /\ PushTwoLoaded
    /\ steps = 6
    /\ IR = I(POP)
    /\ ram[2] = I(200) /\ ram[5] = I(255)
    /\ ram[1] = I(0) /\ ram[11] = I(1)
    /\ reg[1] = I(255) /\ reg[0] = I(200)
    /\ sp = InitialSP

\* C7: CALL r at address p with SP = s leaves SP = s-1, memory[s-1] = p+2
\* and PC = reg[r]; RET leaves PC = memory[SP] and SP one higher, neither
\* followed by an advance of PC.  So a RET at SP = s-1 with memory[s-1]
\* still p+2 resumes at p+2 with SP = s, as the program that calls from
\* address 3 with SP = 244 shows.
C7_CallRetResumes ==
    /\ [][ /\ (TableStep(CALL) /\ err' = "none") =>
                 /\ sp' = sp - 1
                 /\ ram'[Index(I(sp'), RamSize)] = PyAdd(pc, I(2))
                 /\ RegFault(FetchA) = "none"
                 /\ pc' = RegGet(Machine, FetchA)
           /\ (TableStep(RET) /\ err' = "none") =>
                 /\ pc' = ram[Index(I(sp), RamSize)]
                 /\ sp' = sp + 1
         ]_vars
    /\ []((/\ ram[3] = I(CALL) /\ IR = I(RET) /\ err = "none"
           /\ sp = InitialSP /\ ram[InitialSP - 1] = I(5)) => pc = I(5))

\* C7 happens: the subroutine at 8 called from address 3 has returned to
\* address 5 with SP back at 244.
C7_Witness ==
    /\ ram[3] = I(CALL)
    /\ ram[8] = I(PUSH)
    /\ IR = I(RET)
    /\ err = "none"
    /\ sp = InitialSP
    /\ ram[InitialSP - 1] = I(5)
    /\ pc = I(5)
    /\ steps = 5

\* C8: JEQ at address p with operand register r sets PC to reg[r] when
\* Equal is set and to p+2 when it is clear, JNE the other way round, and
\* both leave the registers, SP, the flags and the memory unchanged.
C8_ConditionalJumps ==
    [][ /\ (TableStep(JEQ) /\ RegIndex(FetchA)) =>
              /\ pc' = (IF fl % 2 = 1 THEN reg[FetchA.n] ELSE PyAdd(pc, I(2)))
              /\ err' = "none"
              /\ UNCHANGED <<reg, sp, fl, ram>>
        /\ (TableStep(JNE) /\ RegIndex(FetchA)) =>
              /\ pc' = (IF fl % 2 = 0 THEN reg[FetchA.n] ELSE PyAdd(pc, I(2)))
              /\ err' = "none"
              /\ UNCHANGED <<reg, sp, fl, ram>>
      ]_vars

\* C8 happens: a JNE at address 12 executed with Equal set has fallen
\* through to address 14.
C8_Witness ==
    /\ IR = I(JNE)
    /\ ram[12] = I(JNE)
    /\ fl = 1
    /\ steps = 5
    /\ pc = I(14)
    /\ err = "none"

\* The number a text of decimal digits writes.
DigitValue(c) == CHOOSE i \in 0..9 : Digits[i + 1] = c

RECURSIVE DecimalValue(_)
DecimalValue(text) ==
    IF text = <<>> THEN 0
    ELSE 10 * DecimalValue(SubSeq(text, 1, Len(text) - 1))
         + DigitValue(text[Len(text)])

IsDecimal(text) ==
    /\ text # <<>>
    /\ \A i \in 1..Len(text) : \E k \in 1..10 : Digits[k] = text[i]

\* The memory holds LDI r,v; PRN r; HLT from address 0, r a register and v
\* a byte, and nothing else.
PrintLoaded ==
    /\ ram[0] = I(LDI) /\ RegIndex(ram[1]) /\ Byte(ram[2])
    /\ ram[3] = I(PRN) /\ ram[4] = ram[1]
    /\ ram[5] = I(HLT)
    /\ \A i \in 6..(RamSize - 1) : ram[i] = I(0)

\* C9: the program LDI r,v; PRN r; HLT run from the initial state prints
\* exactly one line, the decimal integer v, and halts with running false
\* after its three steps; for r = 0, v = 8 the line is "8".
C9_PrintsLoadedValue ==
    (PrintLoaded /\ phase = "run") =>
        /\ err = "none"
        /\ steps <= 3
        /\ running <=> steps < 3
        /\ Len(out) = (IF steps >= 2 THEN 1 ELSE 0)
        /\ steps >= 2 =>
              /\ IsDecimal(out[1])
              /\ DecimalValue(out[1]) = ram[2].n
              /\ (ram[2] = I(8) => out[1] = <<"8">>)

\* C9 happens: LDI 0,8; PRN 0; HLT has halted having printed "8".
C9_Witness ==
    /\ PrintLoaded
    /\ ram[1] = I(0) /\ ram[2] = I(8)
    /\ ~running
    /\ steps = 3
    /\ out = << <<"8">> >>

\* The memory holds HLT at address 0 and nothing else.
HltLoaded ==
    /\ ram[0] = I(HLT)
    /\ \A i \in 1..(RamSize - 1) : ram[i] = I(0)

\* C10: the program that is only HLT performs exactly one step and halts
\* with running false, no output, and the registers, SP, flags and memory
\* as they were after the load; PC is where the fetch of the one-byte HLT
\* left it, at address 1; and no step is taken once running is false.
C10_HltOnly ==
    /\ []((HltLoaded /\ phase = "run") =>
            /\ err = "none"
            /\ out = <<>>
            /\ reg = [i \in 0..(NumRegs - 1) |-> IF i = 7 THEN I(InitialSP) ELSE I(0)]
            /\ sp = InitialSP
            /\ fl = 0
            /\ steps <= 1
            /\ steps = 0 => (running /\ pc = I(0))
            /\ steps = 1 => (~running /\ pc = I(1) /\ IR = I(HLT)))
    /\ [][ ~running => UNCHANGED vars ]_vars

\* C10 happens: the HLT-only program has taken its step and halted.
C10_Witness ==
    /\ HltLoaded
    /\ phase = "run"
    /\ steps = 1
    /\ ~running
    /\ pc = I(1)

\* C11: NOT executed on register dest holding the 8-bit value a leaves
\* reg[dest] = 255 - a, whatever the byte after the register number is.
C11_NotComplements ==
    [][ (Looping /\ FetchFault = "none" /\ FetchIR = I(NOT)
            /\ RegIndex(FetchA) /\ Byte(DestBefore)) =>
                /\ err' = "none"
                /\ DestAfter = I(255 - DestBefore.n)
      ]_vars

\* C12: in every reachable state each of the 8 registers holds an integer
\* in [0, 256).
C12_RegistersAreBytes ==
    \A r \in 0..(NumRegs - 1) : Byte(reg[r])

\* An address of a memory cell, 0..255.
InRange(a) == IsInt(a) /\ a.n \in 0..(RamSize - 1)

\* The iteration about to run dispatches the branch-table operation op.
Dispatches(op) ==
    /\ Looping
    /\ FetchFault = "none"
    /\ isALU(FetchIR) = 0
    /\ FetchIR.n = op

\* C13: an iteration whose fetch at PC, PC+1 or PC+2, or whose stack access
\* (at SP-1 for PUSH and CALL, at SP for POP and RET), is outside [0, 256)
\* ends the run with an error and changes no memory cell and no register;
\* and a load that does not fail has written only addresses in [0, 256).
C13_AccessesInBounds ==
    [][ /\ (Looping /\ (~InRange(pc) \/ ~InRange(PyAdd(pc, I(1)))
                            \/ ~InRange(PyAdd(pc, I(2))))) =>
                (err' # "none" /\ ram' = ram /\ reg' = reg)
        /\ ((Dispatches(PUSH) \/ Dispatches(CALL)) /\ ~InRange(I(sp - 1))) =>
                (err' # "none" /\ ram' = ram /\ reg' = reg)
        /\ ((Dispatches(POP) \/ Dispatches(RET)) /\ ~InRange(I(sp))) =>
                (err' # "none" /\ ram' = ram /\ reg' = reg)
        /\ (phase = "load" /\ phase' = "run") => DOMAIN ram' = 0..(RamSize - 1)
      ]_vars

\* C14: a step that fetches an opcode byte with bit 5 clear that is not in
\* the branch table changes no register, memory cell, flag, SP or running
\* value, raises no error, and leaves PC at a later address.
C14_UnknownOpcodeSkipped ==
    [][ (StepOther /\ Byte(FetchIR)) =>
            /\ UNCHANGED <<reg, ram, fl, sp, running>>
            /\ err' = "none"
            /\ PyLt(pc, pc')
      ]_vars

\* C15: DIV executed with 8-bit values in reg[dest] and reg[src], the
\* divisor reg[src] not zero, for any source index 0..7, does not fail and
\* leaves reg[dest] = floor(reg[dest] / reg[src]); MOD likewise leaves
\* reg[dest] = reg[dest] mod reg[src].
C15_DivideByNonZero ==
    [][ /\ (Looping /\ FetchFault = "none" /\ FetchIR = I(DIV)
                /\ RegIndex(FetchA) /\ RegIndex(FetchB)
                /\ Byte(DestBefore) /\ Byte(SrcBefore) /\ SrcBefore.n # 0) =>
                    /\ err' = "none"
                    /\ DestAfter = I(DestBefore.n \div SrcBefore.n)
        /\ (Looping /\ FetchFault = "none" /\ FetchIR = I(MOD)
                /\ RegIndex(FetchA) /\ RegIndex(FetchB)
                /\ Byte(DestBefore) /\ Byte(SrcBefore) /\ SrcBefore.n # 0) =>
                    /\ err' = "none"
                    /\ DestAfter = I(DestBefore.n % SrcBefore.n)
      ]_vars

\* The pc a handler leaves for the opcode fetched: the register's value for
\* JMP, CALL and a taken JEQ or JNE, pc + 2 for a JEQ or JNE not taken, the
\* byte on top of the stack for RET, and pc itself where no handler runs.
HandlerTarget ==
    IF FetchIR.n \in {JMP, CALL} THEN RegGet(Machine, FetchA)
    ELSE IF FetchIR.n = JEQ
    THEN (IF fl % 2 = 1 THEN RegGet(Machine, FetchA) ELSE PyAdd(pc, I(2)))
    ELSE IF FetchIR.n = JNE
    THEN (IF fl % 2 = 0 THEN RegGet(Machine, FetchA) ELSE PyAdd(pc, I(2)))
    ELSE IF FetchIR.n = RET THEN ram[sp]
    ELSE pc

\* C16: a step that fetches IR at p and ends without error leaves
\* pc = p + (IR >> 6) + 1 when bit 4 of IR is clear, and exactly the value
\* its handler assigned when bit 4 is set.
C16_NextPC ==
    [][ ((StepAlu \/ StepTable \/ StepOther) /\ err' = "none") =>
            IF (FetchIR.n \div 16) % 2 = 0
            THEN pc' = I(pc.n + (FetchIR.n \div 64) + 1)
            ELSE pc' = HandlerTarget
      ]_vars

\* C16 happens: a CMP at 9 moved pc by three to the JEQ at 12, and the JEQ,
\* taken, left pc at the address 19 held in register 2.
C16_Witness ==
    /\ IR = I(JEQ)
    /\ ram[9] = I(CMP)
    /\ fl = 1
    /\ pc = I(19)
    /\ steps = 5
    /\ err = "none"

\* C17: the stack pointer is register 7: it is 244 in the initial state, and
\* in every reachable state the address PUSH, POP, CALL and RET use as stack
\* pointer is the value of reg[7].
C17_StackPointerIsR7 ==
    /\ (phase = "load" => sp = InitialSP)
    /\ reg[7] = I(sp)

\* C18: running is true until the program runs; a step that ends without
\* error and turns running from true to false is a step that fetched HLT;
\* and once running is false the last opcode fetched is HLT or the run has
\* ended in an error.
C18_OnlyHltStops ==
    /\ [](phase = "load" => running)
    /\ [][ (running /\ ~running' /\ err' = "none") =>
                (StepTable /\ FetchIR = I(HLT)) ]_vars
    /\ [](~running => (IR = I(HLT) \/ err # "none"))

\* C18 happens: LDI, PUSH and POP left running true and the HLT after them
\* cleared it.
C18_Witness ==
    /\ phase = "run"
    /\ ram[3] = I(PUSH)
    /\ ram[5] = I(POP)
    /\ IR = I(HLT)
    /\ steps = 4
    /\ ~running
    /\ err = "none"

\* C19: in every reachable state each of the 256 memory cells holds an
\* integer in [0, 256).
C19_MemoryHoldsBytes ==
    \A a \in 0..(RamSize - 1) : Byte(ram[a])

\* C20: a step taken with PC at 254 or beyond ends the run with an
\* out-of-range memory access and executes nothing: memory, registers, SP,
\* PC, flags, running and the output are as before, so a HLT stored at 254
\* or 255 does not clear running.
C20_FetchPastEnd ==
    [][ (Looping /\ IsInt(pc) /\ pc.n >= RamSize - 2) =>
            /\ err' = "IndexError"
            /\ UNCHANGED <<ram, reg, sp, pc, fl, running, out>>
      ]_vars

\* C20 happens: the step at PC = 255 read the HLT stored there, failed on
\* the operand fetch, and running is still true.
C20_Witness ==
    /\ pc = I(255)
    /\ ram[255] = I(HLT)
    /\ IR = I(HLT)
    /\ err = "IndexError"
    /\ running
    /\ steps = 3

====
